---- MODULE Spec2Model ----
(***************************************************************************)
(* A model of app/main.py: the SimpleForecastEngine (construction, the     *)
(* centre/item listings, generate_forecast, analyze_uploaded_data).        *)
(*                                                                         *)
(* Conventions                                                             *)
(*  - Python strings are TLA+ strings; Chars gives their code points, so   *)
(*    that sorted(), .upper(), .lower() and the "in" substring test are    *)
(*    computed character by character.                                     *)
(*  - Floats are fixed-point integers in units of 1/Scale (0.001); round(x, *)
(*    2) yields hundredths (an integer number of 0.01).                    *)
(*  - A datetime is its proleptic Gregorian ordinal (date.toordinal()); the*)
(*    time of day never reaches a result. strftime('%Y-%m-%d') yields the  *)
(*    triple <<year, month, day>>.                                         *)
(*  - A call that raises yields [kind |-> "raise"]; a return yields        *)
(*    [kind |-> "return"].                                                 *)
(***************************************************************************)
EXTENDS Integers, Sequences, FiniteSets, TLC

(***************************************************************************)
(* Bounds of the model.                                                    *)
(***************************************************************************)
MaxRows == 2
MaxDays == 2
MaxPairs == 2
MaxTicks == 1
MaxUploadRows == 2

(***************************************************************************)
(* Strings.                                                                *)
(***************************************************************************)
Chars ==
       "" :> <<>> @@
       "KASARA" :> <<75, 65, 83, 65, 82, 65>> @@
       "TALOJA" :> <<84, 65, 76, 79, 74, 65>> @@
       "ALIBAG" :> <<65, 76, 73, 66, 65, 71>> @@
       "UTTAN" :> <<85, 84, 84, 65, 78>> @@
       "VASAI" :> <<86, 65, 83, 65, 73>> @@
       "PUNE" :> <<80, 85, 78, 69>> @@
       "CHILAPI" :> <<67, 72, 73, 76, 65, 80, 73>> @@
       "MIX FISH" :> <<77, 73, 88, 32, 70, 73, 83, 72>> @@
       "PRAWN HEAD AND SHEL" :> <<80, 82, 65, 87, 78, 32, 72, 69, 65, 68, 32, 65, 78, 68, 32, 83, 72, 69, 76>> @@
       "MUNDI" :> <<77, 85, 78, 68, 73>> @@
       "BOMBIL" :> <<66, 79, 77, 66, 73, 76>> @@
       "PRAWN" :> <<80, 82, 65, 87, 78>> @@
       "chilapi" :> <<99, 104, 105, 108, 97, 112, 105>> @@
       "Prawn Mundi" :> <<80, 114, 97, 119, 110, 32, 77, 117, 110, 100, 105>> @@
       "ROHU" :> <<82, 79, 72, 85>> @@
       "CENTER NAME" :> <<67, 69, 78, 84, 69, 82, 32, 78, 65, 77, 69>> @@
       "ITEM" :> <<73, 84, 69, 77>> @@
       "LOCATION" :> <<76, 79, 67, 65, 84, 73, 79, 78>> @@
       "PRODUCT" :> <<80, 82, 79, 68, 85, 67, 84>> @@
       "Date" :> <<68, 97, 116, 101>> @@
       "Update Time" :> <<85, 112, 100, 97, 116, 101, 32, 84, 105, 109, 101>> @@
       "Demand Weight" :> <<68, 101, 109, 97, 110, 100, 32, 87, 101, 105, 103, 104, 116>> @@
       "Quantity" :> <<81, 117, 97, 110, 116, 105, 116, 121>> @@
       "name" :> <<110, 97, 109, 101>> @@
       "date" :> <<100, 97, 116, 101>> @@
       "time" :> <<116, 105, 109, 101>> @@
       "weight" :> <<119, 101, 105, 103, 104, 116>> @@
       "quantity" :> <<113, 117, 97, 110, 116, 105, 116, 121>> @@
       "demand" :> <<100, 101, 109, 97, 110, 100>>

\* str.upper() and str.lower() on code points (ASCII letters).
UpperChars(s) == [k \in 1..Len(s) |-> IF s[k] >= 97 /\ s[k] <= 122 THEN s[k] - 32 ELSE s[k]]

LowerChars(s) == [k \in 1..Len(s) |-> IF s[k] >= 65 /\ s[k] <= 90 THEN s[k] + 32 ELSE s[k]]

\* Python's "sub in s" on code-point sequences.
Contains(sub, s) ==
    \E k \in 0..(Len(s) - Len(sub)) : \A j \in 1..Len(sub) : s[k + j] = sub[j]

\* Python's a < b on str: lexicographic by code point, a proper prefix is smaller.
LexLess(a, b) ==
    LET sa == Chars[a]
        sb == Chars[b]
    IN \E k \in 1..(Len(sb)) :
          /\ k <= Len(sa) + 1
          /\ \A j \in 1..(k - 1) : sa[j] = sb[j]
          /\ \/ k = Len(sa) + 1
             \/ sa[k] < sb[k]

\* sorted(xs) of a collection of distinct strings.
RECURSIVE SortedSeq(_)
SortedSeq(S) ==
    IF S = {} THEN <<>>
    ELSE LET m == CHOOSE x \in S : \A y \in S \ {x} : LexLess(x, y)
         IN <<m>> \o SortedSeq(S \ {m})

\* All sequences over S of length 0..n.
SeqUpTo(S, n) == UNION {[1..k -> S] : k \in 0..n}

(***************************************************************************)
(* State.                                                                  *)
(***************************************************************************)
VARIABLES
    pc,               \* "new", "ready" (constructed), "failed" (__init__ raised)
    config,           \* self.config
    models,           \* self.models: the names that hold a loaded artifact
    feature_columns,  \* self.feature_columns
    data,             \* self.data
    config_file,      \* what __init__ met at config_path
    call,             \* the last listing call: [op, center]
    result,           \* what that call returned or raised
    fc_pc,            \* position inside generate_forecast
    request,          \* its arguments
    forecasts,        \* its local dict "forecasts"
    ci,               \* index of the current center
    ii,               \* index of the current item
    i,                \* the day offset of the inner loop
    start_date,       \* its local start_date
    series,           \* its local center_item_forecasts
    today,            \* the date datetime.now() returns
    ticks,            \* how many times midnight has passed
    now_read,         \* per (center, item): the date datetime.now() returned
    twin,             \* a second engine and model_type given the same inputs
    twin_forecasts,   \* the second call's dict
    twin_series,      \* the second call's current series
    upload,           \* the uploaded file
    analysis          \* what analyze_uploaded_data returned

engineVars == <<pc, config, models, feature_columns, data, config_file>>
listingVars == <<call, result>>
forecastVars == <<fc_pc, request, forecasts, ci, ii, i, start_date, series,
                  today, ticks, now_read, twin, twin_forecasts, twin_series>>
analyzeVars == <<upload, analysis>>
vars == <<pc, config, models, feature_columns, data, config_file, call, result,
          fc_pc, request, forecasts, ci, ii, i, start_date, series,
          today, ticks, now_read, twin, twin_forecasts, twin_series,
          upload, analysis>>

(***************************************************************************)
(* Results of calls.                                                       *)
(***************************************************************************)
Return(v) == [kind |-> "return", value |-> v, exc |-> ""]

Raise(e) == [kind |-> "raise", value |-> <<>>, exc |-> e]

NoCall == [op |-> "none", center |-> ""]

NoResult == [kind |-> "none", value |-> <<>>, exc |-> ""]

(***************************************************************************)
(* __init__: the configuration document.                                   *)
(***************************************************************************)
\* A key the document does not have; subscripting it raises.
Missing == "<missing>"

\* The literal of lines 34-42.
DefaultConfig ==
    [processed_path |-> "data/processed/forecasting_data.parquet",
     target_column |-> "PAY WEIGHT",
     date_column |-> "DATE",
     center_column |-> "CENTER NAME",
     item_column |-> "ITEM"]

\* yaml.safe_load of an empty file is None: every subscript fails.
NullDoc ==
    [processed_path |-> Missing, target_column |-> Missing, date_column |-> Missing,
     center_column |-> Missing, item_column |-> Missing]

\* Documents a config file may parse to.
ConfigDocs ==
    { DefaultConfig,
      [DefaultConfig EXCEPT !.center_column = "LOCATION", !.item_column = "PRODUCT"],
      [DefaultConfig EXCEPT !.center_column = "LOCATION"],
      [DefaultConfig EXCEPT !.center_column = Missing],
      [NullDoc EXCEPT !.processed_path = "data/processed/forecasting_data.parquet"],
      [DefaultConfig EXCEPT !.processed_path = Missing],
      NullDoc }

\* What open()/yaml.safe_load meet at config_path.
ConfigFiles ==
    {[status |-> s, doc |-> NullDoc] : s \in {"missing", "unreadable", "malformed"}}
    \cup {[status |-> "ok", doc |-> d] : d \in ConfigDocs}

\* Lines 30-42: only FileNotFoundError is handled.
LoadConfig(file) ==
    CASE file.status = "missing" -> Return(DefaultConfig)
      [] file.status = "unreadable" -> Raise("PermissionError")
      [] file.status = "malformed" -> Raise("YAMLError")
      [] OTHER -> Return(file.doc)

(***************************************************************************)
(* _load_models.                                                           *)
(***************************************************************************)
FileStates == {"absent", "ok", "corrupt"}

ModelFiles ==
    { [xgboost |-> "absent", lightgbm |-> "absent", features |-> "absent"],
      [xgboost |-> "ok", lightgbm |-> "ok", features |-> "ok"],
      [xgboost |-> "ok", lightgbm |-> "corrupt", features |-> "ok"],
      [xgboost |-> "corrupt", lightgbm |-> "ok", features |-> "ok"],
      [xgboost |-> "absent", lightgbm |-> "ok", features |-> "corrupt"] }

StoredFeatures == <<"day_of_week", "lag_7">>

\* The three loads run in order; the first that raises ends the method (the
\* except clause logs), keeping what was loaded before it.
LoadModels(files) ==
    LET stop1 == files.xgboost = "corrupt"
        stop2 == stop1 \/ files.lightgbm = "corrupt"
        stop3 == stop2 \/ files.features = "corrupt"
    IN [models |-> (IF files.xgboost = "ok" THEN {"xgboost"} ELSE {})
                   \cup (IF ~stop1 /\ files.lightgbm = "ok" THEN {"lightgbm"} ELSE {}),
        feature_columns |-> IF ~stop2 /\ files.features = "ok"
                            THEN StoredFeatures ELSE <<>>]

(***************************************************************************)
(* _load_data.                                                             *)
(***************************************************************************)
\* self.data = None
NoData == [present |-> FALSE, columns |-> {}, rows |-> <<>>]

DataColumns == {"CENTER NAME", "ITEM"}

ColumnValues(col) == IF col = "CENTER NAME" THEN {"KASARA", "ALIBAG"} ELSE {"MUNDI", "BOMBIL"}

\* The rows a table with the columns cols can hold.
RowsOf(cols) == {r \in [cols -> {"KASARA", "ALIBAG", "MUNDI", "BOMBIL"}] :
                    \A c \in cols : r[c] \in ColumnValues(c)}

DataTables ==
    UNION {{[present |-> TRUE, columns |-> cols, rows |-> rows] :
               rows \in IF cols = {} THEN {<<>>} ELSE SeqUpTo(RowsOf(cols), MaxRows)} :
           cols \in SUBSET DataColumns}

\* What os.path.exists/pd.read_parquet meet at the configured path.
DataFiles ==
    {[status |-> s, table |-> NoData] : s \in {"absent", "corrupt"}}
    \cup {[status |-> "ok", table |-> t] : t \in DataTables}

\* Lines 70-75: every exception is logged and leaves self.data None.
LoadData(cfg, file) ==
    IF cfg.processed_path = Missing THEN NoData
    ELSE IF file.status = "ok" THEN file.table
    ELSE NoData

(***************************************************************************)
(* get_available_centers, get_available_items.                             *)
(***************************************************************************)
FallbackCenters == <<"KASARA", "TALOJA", "ALIBAG", "UTTAN", "VASAI">>

FallbackItems == <<"CHILAPI", "MIX FISH", "PRAWN HEAD AND SHEL", "MUNDI", "BOMBIL">>

\* The argument None.
NoneArg == "<None>"

\* Python truthiness of an Optional[str].
Truthy(center) == center # NoneArg /\ center # ""

\* Series.unique() of a column over some rows.
Unique(rows, col) == {rows[k][col] : k \in 1..Len(rows)}

get_available_centers(cfg, d) ==
    IF d.present
    THEN IF cfg.center_column = Missing THEN Raise("KeyError")
         ELSE IF cfg.center_column \in d.columns
              THEN Return(SortedSeq(Unique(d.rows, cfg.center_column)))
              ELSE Return(FallbackCenters)
    ELSE Return(FallbackCenters)

\* self.data[self.data[center_column] == center]
FilterRows(rows, col, center) == SelectSeq(rows, LAMBDA r : r[col] = center)

\* As get_available_items, but falling back to the fixed list when the filter
\* leaves no row.
get_available_items_EmptyFallback(cfg, d, center) ==
    IF d.present
    THEN IF cfg.item_column = Missing THEN Raise("KeyError")
         ELSE IF cfg.item_column \in d.columns
              THEN IF Truthy(center)
                   THEN IF cfg.center_column = Missing \/ cfg.center_column \notin d.columns
                        THEN Raise("KeyError")
                        ELSE IF FilterRows(d.rows, cfg.center_column, center) = <<>>
                             THEN Return(FallbackItems)
                             ELSE Return(SortedSeq(Unique(
                                      FilterRows(d.rows, cfg.center_column, center),
                                      cfg.item_column)))
                   ELSE Return(SortedSeq(Unique(d.rows, cfg.item_column)))
              ELSE Return(FallbackItems)
    ELSE Return(FallbackItems)

get_available_items(cfg, d, center) ==
    IF d.present
    THEN IF cfg.item_column = Missing THEN Raise("KeyError")
         ELSE IF cfg.item_column \in d.columns
              THEN IF Truthy(center)
                   THEN IF cfg.center_column = Missing \/ cfg.center_column \notin d.columns
                        THEN Raise("KeyError")
                        ELSE Return(SortedSeq(Unique(
                                 FilterRows(d.rows, cfg.center_column, center),
                                 cfg.item_column)))
                   ELSE Return(SortedSeq(Unique(d.rows, cfg.item_column)))
              ELSE Return(FallbackItems)
    ELSE Return(FallbackItems)

CenterArgs == {NoneArg, "", "KASARA", "PUNE"}

(***************************************************************************)
(* Dates.                                                                  *)
(***************************************************************************)
\* date.fromordinal(n) as <<year, month, day>>, which strftime('%Y-%m-%d')
\* prints: the civil-from-days computation on the proleptic Gregorian calendar
\* (ordinal 1 is 0001-01-01, so day 0 of the 400-year era that starts on
\* 0000-03-01 is ordinal -305).
Strftime(ordinal) ==
    LET z == ordinal + 305
        era == z \div 146097
        doe == z - era * 146097
        yoe == (doe - doe \div 1460 + doe \div 36524 - doe \div 146096) \div 365
        doy == doe - (365 * yoe + yoe \div 4 - yoe \div 100)
        mp == (5 * doy + 2) \div 153
        d == doy - (153 * mp + 2) \div 5 + 1
        m == IF mp < 10 THEN mp + 3 ELSE mp - 9
        y == yoe + era * 400 + (IF m <= 2 THEN 1 ELSE 0)
    IN <<y, m, d>>

\* datetime.weekday(): Monday is 0, Sunday is 6.
Weekday(ordinal) == (ordinal + 6) % 7

\* The calendar itself, used by the clock: the day after <<y, m, d>>.
IsLeap(y) == (y % 4 = 0 /\ y % 100 # 0) \/ y % 400 = 0

DaysInMonth(y, m) ==
    IF m = 2 THEN (IF IsLeap(y) THEN 29 ELSE 28)
    ELSE IF m \in {4, 6, 9, 11} THEN 30 ELSE 31

NextCalendarDay(ymd) ==
    LET y == ymd[1]
        m == ymd[2]
        d == ymd[3]
    IN IF d < DaysInMonth(y, m) THEN <<y, m, d + 1>>
       ELSE IF m < 12 THEN <<y, m + 1, 1>>
       ELSE <<y + 1, 1, 1>>

\* The dates the process may start on: before a leap day, before a year end,
\* before a weekend.
StartDays ==
    { [ordinal |-> 738943, ymd |-> <<2024, 2, 27>>],
      [ordinal |-> 739615, ymd |-> <<2025, 12, 30>>],
      [ordinal |-> 739926, ymd |-> <<2026, 11, 6>>] }

(***************************************************************************)
(* Numbers.                                                                *)
(***************************************************************************)
\* A float x is the integer x * Scale.
Scale == 1000

\* Round a non-negative rational n/d to the nearest integer, ties to even
\* (Python's round()).
RoundHalfEven(n, d) ==
    LET q == n \div d
        r == n % d
    IN IF 2 * r < d THEN q
       ELSE IF 2 * r > d THEN q + 1
       ELSE IF q % 2 = 0 THEN q ELSE q + 1

\* round(float(x), 2), in hundredths.
Round2(x) == RoundHalfEven(x, Scale \div 100)

\* round(float(x * 0.85), 2) and round(float(x * 1.15), 2), in hundredths.
Round2Times(x, percent) == RoundHalfEven(x * percent, Scale)

\* np.sin(k * f) in thousandths, for f = 0.2, 0.15, 0.25, 0.3, 0.1 (keyed by
\* 100 f) and k = 0..7 (entry k + 1).
SinTable ==
    20 :> <<0, 199, 389, 565, 717, 841, 932, 985>> @@
    15 :> <<0, 149, 296, 435, 565, 682, 783, 867>> @@
    25 :> <<0, 247, 479, 682, 841, 949, 997, 984>> @@
    30 :> <<0, 296, 565, 783, 932, 997, 974, 863>> @@
    10 :> <<0, 100, 199, 296, 389, 479, 565, 644>>

\* baseline + (np.sin(k * f) * amplitude)
Curve(baseline, amplitude, f100, k) ==
    baseline * Scale + amplitude * SinTable[f100][k + 1]

\* np.random.normal(0, 100): the samples the model draws.
NoiseSamples == {-2000000, 37644}

(***************************************************************************)
(* generate_forecast.                                                      *)
(***************************************************************************)
\* "KEYWORD" in item.upper()
HasKeyword(keyword, item) == Contains(Chars[keyword], UpperChars(Chars[item]))

\* Lines 104-114.
BaseDemand(item, k) ==
    IF HasKeyword("CHILAPI", item) THEN Curve(1500, 300, 20, k)
    ELSE IF HasKeyword("MIX FISH", item) THEN Curve(2000, 400, 15, k)
    ELSE IF HasKeyword("PRAWN", item) THEN Curve(800, 200, 25, k)
    ELSE IF HasKeyword("MUNDI", item) THEN Curve(600, 150, 30, k)
    ELSE Curve(1000, 200, 10, k)

\* Lines 117-119.
WeekendEffect(base_demand, forecast_date) ==
    IF Weekday(forecast_date) >= 5 THEN (base_demand * 12) \div 10 ELSE base_demand

Max(a, b) == IF a >= b THEN a ELSE b

\* As ForecastValue, but a stored model named by model_type shifts the value.
ForecastValueByModel(store, features, model_type, item, k, forecast_date, noise) ==
    LET v == Max(100 * Scale, WeekendEffect(BaseDemand(item, k), forecast_date) + noise)
    IN IF model_type \in store THEN v + Len(features) * Scale ELSE v

\* Line 121. The engine's model store and feature list and the model_type
\* argument are in scope and are not read.
ForecastValue(store, features, model_type, item, k, forecast_date, noise) ==
    Max(100 * Scale, WeekendEffect(BaseDemand(item, k), forecast_date) + noise)

\* As ForecastPoint, with bounds of 80% and 120%.
PointWideBand(forecast_date, forecast_value) ==
    [date |-> Strftime(forecast_date),
     forecast |-> Round2(forecast_value),
     lower_bound |-> Round2Times(forecast_value, 80),
     upper_bound |-> Round2Times(forecast_value, 120)]

\* Lines 123-128.
ForecastPoint(forecast_date, forecast_value) ==
    [date |-> Strftime(forecast_date),
     forecast |-> Round2(forecast_value),
     lower_bound |-> Round2Times(forecast_value, 85),
     upper_bound |-> Round2Times(forecast_value, 115)]

\* Line 98: datetime.now() + timedelta(days=1).
StartDate(now) == now + 1

\* As ForecastDate, stepping two days per point.
ForecastDateSkipping(start, k) == start + 2 * k

\* Line 101: start_date + timedelta(days=i).
ForecastDate(start, k) == start + k

\* Line 100: i in range(forecast_days).
InRange(k, forecast_days) == k >= 0 /\ k < forecast_days

\* As InitCenter, but rebinding forecasts instead of adding to it.
InitCenterOnly(fc, center) == (center :> <<>>)

\* Line 95: forecasts[center] = {}.
InitCenter(fc, center) == (center :> <<>>) @@ fc

\* Line 130: forecasts[center][item] = center_item_forecasts.
StoreSeries(fc, center, item, s) == [fc EXCEPT ![center] = (item :> s) @@ @]

RequestCenters == {<<>>, <<"KASARA">>, <<"KASARA", "ALIBAG">>, <<"KASARA", "KASARA">>}

RequestItems ==
    {<<>>, <<"MUNDI">>, <<"chilapi">>, <<"MIX FISH">>, <<"Prawn Mundi">>, <<"ROHU">>,
     <<"MUNDI", "ROHU">>}

ModelTypes == {"xgboost", "prophet"}

\* The engines generate_forecast may be called on: the model store and the
\* feature list that construction left.
EngineStores ==
    {[models |-> {}, feature_columns |-> <<>>],
     [models |-> {"xgboost", "lightgbm"}, feature_columns |-> StoredFeatures]}

CurrentCenter == request.centers[ci]

CurrentItem == request.items[ii]

\* The call: generate_forecast(centers, items, forecast_days, model_type), and
\* beside it the same call on the twin engine with another model_type.
Request(centers, items, forecast_days, model_type, twin_type) ==
    /\ pc = "ready"
    /\ fc_pc = "idle"
    /\ Len(centers) * Len(items) <= MaxPairs
    /\ request' = [centers |-> centers, items |-> items,
                   forecast_days |-> forecast_days, model_type |-> model_type]
    /\ twin' = [twin EXCEPT !.model_type = twin_type]
    /\ forecasts' = <<>>
    /\ twin_forecasts' = <<>>
    /\ ci' = 1
    /\ fc_pc' = "center"
    /\ UNCHANGED <<ii, i, start_date, series, today, ticks, now_read, twin_series>>
    /\ UNCHANGED <<engineVars, listingVars, analyzeVars>>

\* for center in centers: forecasts[center] = {}
BeginCenter ==
    /\ fc_pc = "center"
    /\ ci <= Len(request.centers)
    /\ forecasts' = InitCenter(forecasts, CurrentCenter)
    /\ twin_forecasts' = InitCenter(twin_forecasts, CurrentCenter)
    /\ ii' = 1
    /\ fc_pc' = "item"
    /\ UNCHANGED <<request, ci, i, start_date, series, today, ticks, now_read, twin,
                   twin_series>>
    /\ UNCHANGED <<engineVars, listingVars, analyzeVars>>

\* return forecasts
ReturnForecasts ==
    /\ fc_pc = "center"
    /\ ci > Len(request.centers)
    /\ fc_pc' = "done"
    /\ UNCHANGED <<request, forecasts, ci, ii, i, start_date, series, today, ticks,
                   now_read, twin, twin_forecasts, twin_series>>
    /\ UNCHANGED <<engineVars, listingVars, analyzeVars>>

\* for item in items: center_item_forecasts = []; start_date = now() + 1 day
BeginPair ==
    /\ fc_pc = "item"
    /\ ii <= Len(request.items)
    /\ series' = <<>>
    /\ twin_series' = <<>>
    /\ start_date' = StartDate(today.ordinal)
    /\ now_read' = (<<CurrentCenter, CurrentItem>> :> today.ymd) @@ now_read
    /\ i' = 0
    /\ fc_pc' = "day"
    /\ UNCHANGED <<request, forecasts, ci, ii, today, ticks, twin, twin_forecasts>>
    /\ UNCHANGED <<engineVars, listingVars, analyzeVars>>

\* The items of a center are exhausted: on to the next center.
EndCenter ==
    /\ fc_pc = "item"
    /\ ii > Len(request.items)
    /\ ci' = ci + 1
    /\ fc_pc' = "center"
    /\ UNCHANGED <<request, forecasts, ii, i, start_date, series, today, ticks,
                   now_read, twin, twin_forecasts, twin_series>>
    /\ UNCHANGED <<engineVars, listingVars, analyzeVars>>

\* One pass of "for i in range(forecast_days)" with the noise sample drawn.
AppendPoint(noise) ==
    /\ fc_pc = "day"
    /\ InRange(i, request.forecast_days)
    /\ LET forecast_date == ForecastDate(start_date, i)
           value == ForecastValue(models, feature_columns, request.model_type,
                                  CurrentItem, i, forecast_date, noise)
           twin_value == ForecastValue(twin.models, twin.feature_columns,
                                       twin.model_type, CurrentItem, i,
                                       forecast_date, noise)
       IN /\ series' = Append(series, ForecastPoint(forecast_date, value))
          /\ twin_series' = Append(twin_series, ForecastPoint(forecast_date, twin_value))
    /\ i' = i + 1
    /\ UNCHANGED <<fc_pc, request, forecasts, ci, ii, start_date, today, ticks,
                   now_read, twin, twin_forecasts>>
    /\ UNCHANGED <<engineVars, listingVars, analyzeVars>>

\* The range is exhausted: forecasts[center][item] = center_item_forecasts.
EndPair ==
    /\ fc_pc = "day"
    /\ ~InRange(i, request.forecast_days)
    /\ forecasts' = StoreSeries(forecasts, CurrentCenter, CurrentItem, series)
    /\ twin_forecasts' = StoreSeries(twin_forecasts, CurrentCenter, CurrentItem,
                                     twin_series)
    /\ ii' = ii + 1
    /\ fc_pc' = "item"
    /\ UNCHANGED <<request, ci, i, start_date, series, today, ticks, now_read, twin,
                   twin_series>>
    /\ UNCHANGED <<engineVars, listingVars, analyzeVars>>

\* Midnight passes while the call runs. The clock is read only at the start
\* of a pair, so it matters only there.
Tick ==
    /\ fc_pc = "item"
    /\ ticks < MaxTicks
    /\ today' = [ordinal |-> today.ordinal + 1, ymd |-> NextCalendarDay(today.ymd)]
    /\ ticks' = ticks + 1
    /\ UNCHANGED <<fc_pc, request, forecasts, ci, ii, i, start_date, series, now_read,
                   twin, twin_forecasts, twin_series>>
    /\ UNCHANGED <<engineVars, listingVars, analyzeVars>>

(***************************************************************************)
(* The engine: construction and the listings.                              *)
(***************************************************************************)
\* SimpleForecastEngine(): __init__ with _load_models and _load_data.
Construct(cfgFile, modelFiles, dataFile) ==
    /\ pc = "new"
    /\ config_file' = cfgFile.status
    /\ LET loaded == LoadConfig(cfgFile)
       IN IF loaded.kind = "raise"
          THEN /\ pc' = "failed"
               /\ UNCHANGED <<config, models, feature_columns, data>>
          ELSE /\ pc' = "ready"
               /\ config' = loaded.value
               /\ models' = LoadModels(modelFiles).models
               /\ feature_columns' = LoadModels(modelFiles).feature_columns
               /\ data' = LoadData(loaded.value, dataFile)
    /\ UNCHANGED <<listingVars, forecastVars, analyzeVars>>

GetCenters ==
    /\ pc = "ready"
    /\ call' = [op |-> "get_available_centers", center |-> NoneArg]
    /\ result' = get_available_centers(config, data)
    /\ UNCHANGED <<engineVars, forecastVars, analyzeVars>>

GetItems(center) ==
    /\ pc = "ready"
    /\ call' = [op |-> "get_available_items", center |-> center]
    /\ result' = get_available_items(config, data, center)
    /\ UNCHANGED <<engineVars, forecastVars, analyzeVars>>

(***************************************************************************)
(* analyze_uploaded_data.                                                  *)
(***************************************************************************)
Text(s) == [fmt |-> s, args |-> <<>>]

Format(s, arg) == [fmt |-> s, args |-> <<arg>>]

\* None
None == [none |-> TRUE]

\* pd.NaT
NaT == -1

DateCell(ordinal) == [kind |-> "date", v |-> ordinal]

TextCell == [kind |-> "text", v |-> 0]

NumCell(n) == [kind |-> "num", v |-> n]

\* The cells a column of an uploaded file may hold.
CellsFor(col) ==
    CASE col = "Date" -> {DateCell(739615), DateCell(738943), TextCell}
      [] col = "Update Time" -> {DateCell(739926), TextCell}
      [] col = "Demand Weight" -> {NumCell(5), NumCell(7)}
      [] col = "Quantity" -> {NumCell(3)}
      [] OTHER -> {TextCell}

UploadColumns ==
    {<<"name">>, <<"Date", "Demand Weight">>, <<"Quantity", "Update Time">>,
     <<"name", "Update Time", "Date">>}

UploadRows(cols) ==
    {r \in [1..Len(cols) -> UNION {CellsFor(cols[k]) : k \in 1..Len(cols)}] :
        \A k \in 1..Len(cols) : r[k] \in CellsFor(cols[k])}

\* The byte contents handed to the method: what pd.read_csv makes of them.
Uploads ==
    {[parses |-> FALSE, columns |-> <<>>, rows |-> <<>>]}
    \cup UNION {{[parses |-> TRUE, columns |-> cols, rows |-> rows] :
                    rows \in SeqUpTo(UploadRows(cols), MaxUploadRows)} :
                cols \in UploadColumns}

NoUpload == [parses |-> FALSE, columns |-> <<>>, rows |-> <<>>]

\* 'word' in col.lower()
NameHas(word, col) == Contains(Chars[word], LowerChars(Chars[col]))

\* Lines 152 and 161: the indexes of the matching columns, in column order.
DateColumns(cols) ==
    SelectSeq([k \in 1..Len(cols) |-> k],
              LAMBDA k : NameHas("date", cols[k]) \/ NameHas("time", cols[k]))

DemandColumns(cols) ==
    SelectSeq([k \in 1..Len(cols) |-> k],
              LAMBDA k : NameHas("weight", cols[k]) \/ NameHas("quantity", cols[k])
                         \/ NameHas("demand", cols[k]))

\* pd.to_datetime(..., errors='coerce') of one cell: an integer is a count of
\* nanoseconds from 1970-01-01.
ToDatetime(cell) ==
    CASE cell.kind = "date" -> cell.v
      [] cell.kind = "num" -> 719163
      [] OTHER -> NaT

\* The parsed values of column k, NaT dropped (min() and max() skip NaT).
ParsedDates(rows, k) ==
    {ToDatetime(rows[n][k]) : n \in 1..Len(rows)} \ {NaT}

\* Series.min() / Series.max(): NaT when nothing is left.
SeriesMin(S) == IF S = {} THEN NaT ELSE CHOOSE x \in S : \A y \in S : x <= y

SeriesMax(S) == IF S = {} THEN NaT ELSE CHOOSE x \in S : \A y \in S : x >= y

\* Series.sum()
RECURSIVE SumColumn(_, _)
SumColumn(rows, k) ==
    IF rows = <<>> THEN 0 ELSE rows[1][k].v + SumColumn(Tail(rows), k)

\* As ErrorResult, but adding the error to an analysis mapping.
ErrorResultKeepingFields(e) ==
    [total_records |-> 0, columns |-> <<>>, date_range |-> None, centers |-> <<>>,
     products |-> <<>>, total_demand |-> 0, recommendations |-> <<>>,
     error |-> Format("Error analyzing file: {}", e)]

\* Line 176.
ErrorResult(e) == [error |-> Format("Error analyzing file: {}", e)]

\* Lines 153-158: the date range, or the exception NaT.strftime raises.
DateRange(u) ==
    LET date_columns == DateColumns(u.columns)
    IN IF date_columns = <<>> THEN Return(None)
       ELSE LET parsed == ParsedDates(u.rows, date_columns[1])
            IN IF SeriesMin(parsed) = NaT THEN Raise("ValueError")
               ELSE Return([start |-> Strftime(SeriesMin(parsed)),
                            end |-> Strftime(SeriesMax(parsed))])

\* Lines 161-163.
TotalDemand(u) ==
    LET demand_columns == DemandColumns(u.columns)
    IN IF demand_columns = <<>> THEN 0 ELSE SumColumn(u.rows, demand_columns[1])

analyze_uploaded_data(u) ==
    IF ~u.parses THEN ErrorResult("ParserError")
    ELSE IF DateRange(u).kind = "raise" THEN ErrorResult(DateRange(u).exc)
    ELSE [total_records |-> Len(u.rows),
          columns |-> u.columns,
          date_range |-> DateRange(u).value,
          centers |-> <<>>,
          products |-> <<>>,
          total_demand |-> TotalDemand(u),
          recommendations |->
              << Text("Data uploaded successfully for analysis"),
                 Format("Found {} records for processing", Len(u.rows)),
                 Text("Ready to generate next year forecasts"),
                 Text("Seasonal patterns will be analyzed automatically") >>]

\* No call yet.
NoAnalysis == [pending |-> TRUE]

Analyze(u) ==
    /\ pc = "ready"
    /\ upload' = u
    /\ analysis' = analyze_uploaded_data(u)
    /\ UNCHANGED <<engineVars, listingVars, forecastVars>>

(***************************************************************************)
(* Specifications.                                                         *)
(***************************************************************************)
IdleForecast ==
    /\ fc_pc = "idle"
    /\ request = [centers |-> <<>>, items |-> <<>>, forecast_days |-> 0,
                  model_type |-> "xgboost"]
    /\ forecasts = <<>>
    /\ ci = 1
    /\ ii = 1
    /\ i = 0
    /\ start_date = 0
    /\ series = <<>>
    /\ ticks = 0
    /\ now_read = <<>>
    /\ twin_forecasts = <<>>
    /\ twin_series = <<>>

IdleListing == call = NoCall /\ result = NoResult

IdleAnalyze == upload = NoUpload /\ analysis = NoAnalysis

\* A constructed engine without data and with the default configuration.
ReadyEngine(store) ==
    /\ pc = "ready"
    /\ config = DefaultConfig
    /\ config_file = "missing"
    /\ models = store.models
    /\ feature_columns = store.feature_columns
    /\ data = NoData

\* The process before the engine is constructed.
InitEngine ==
    /\ pc = "new"
    /\ config = NullDoc
    /\ config_file = "none"
    /\ models = {}
    /\ feature_columns = <<>>
    /\ data = NoData
    /\ today \in StartDays
    /\ twin = [models |-> {}, feature_columns |-> <<>>, model_type |-> "xgboost"]
    /\ IdleListing
    /\ IdleForecast
    /\ IdleAnalyze

NextEngine ==
    \/ \E cfgFile \in ConfigFiles, modelFiles \in ModelFiles, dataFile \in DataFiles :
          Construct(cfgFile, modelFiles, dataFile)
    \/ GetCenters
    \/ \E center \in CenterArgs : GetItems(center)

SpecEngine == InitEngine /\ [][NextEngine]_vars

\* Two constructed engines, before a generate_forecast call.
InitForecast ==
    /\ \E store \in EngineStores : ReadyEngine(store)
    /\ \E store \in EngineStores :
          twin = [models |-> store.models, feature_columns |-> store.feature_columns,
                  model_type |-> "xgboost"]
    /\ today \in StartDays
    /\ IdleListing
    /\ IdleForecast
    /\ IdleAnalyze

NextForecast ==
    \/ \E centers \in RequestCenters, items \in RequestItems,
          forecast_days \in -1..MaxDays, model_type \in ModelTypes :
          \E twin_type \in ModelTypes \ {model_type} :
             Request(centers, items, forecast_days, model_type, twin_type)
    \/ BeginCenter
    \/ BeginPair
    \/ \E noise \in NoiseSamples : AppendPoint(noise)
    \/ EndPair
    \/ EndCenter
    \/ ReturnForecasts
    \/ Tick

SpecForecast == InitForecast /\ [][NextForecast]_vars

\* A constructed engine, before an analyze_uploaded_data call.
InitAnalyze ==
    /\ \E store \in EngineStores : ReadyEngine(store)
    /\ today \in StartDays
    /\ twin = [models |-> {}, feature_columns |-> <<>>, model_type |-> "xgboost"]
    /\ IdleListing
    /\ IdleForecast
    /\ IdleAnalyze

NextAnalyze == \E u \in Uploads : Analyze(u)

SpecAnalyze == InitAnalyze /\ [][NextAnalyze]_vars

(***************************************************************************)
(* Properties.                                                             *)
(***************************************************************************)
Range(f) == {f[x] : x \in DOMAIN f}

Returned == fc_pc = "done"

\* Every point of the returned mapping.
ReturnedPoints ==
    UNION {UNION {Range(forecasts[c][it]) : it \in DOMAIN forecasts[c]} :
           c \in DOMAIN forecasts}

\* C1: when generate_forecast returns, every series of the result has exactly
\* forecast_days points if forecast_days >= 1 and none if forecast_days <= 0;
\* each date is the calendar day after the one before it, and the first is the
\* calendar day after the day datetime.now() gave when the series was begun.
C1_SeriesLengthAndDates ==
    Returned =>
        \A c \in DOMAIN forecasts : \A it \in DOMAIN forecasts[c] :
            LET s == forecasts[c][it]
            IN /\ Len(s) = IF request.forecast_days >= 1 THEN request.forecast_days ELSE 0
               /\ \A k \in 1..(Len(s) - 1) : s[k + 1].date = NextCalendarDay(s[k].date)
               /\ Len(s) >= 1 => s[1].date = NextCalendarDay(now_read[<<c, it>>])

\* A returned series of two or more days that runs over the leap day.
C1_Witness ==
    /\ Returned
    /\ request.forecast_days >= 2
    /\ \E c \in DOMAIN forecasts : \E it \in DOMAIN forecasts[c] :
          /\ Len(forecasts[c][it]) = request.forecast_days
          /\ forecasts[c][it][1].date = <<2024, 2, 28>>
          /\ forecasts[c][it][2].date = <<2024, 2, 29>>

\* C2, as stated: every returned point has forecast >= 100 and its bounds are
\* round(forecast * 0.85, 2) and round(forecast * 1.15, 2) of the forecast the
\* point reports.
C2_BoundsOfReportedForecast ==
    Returned =>
        \A p \in ReturnedPoints :
            /\ p.forecast >= 100 * 100
            /\ p.lower_bound = RoundHalfEven(p.forecast * 85, 100)
            /\ p.upper_bound = RoundHalfEven(p.forecast * 115, 100)

\* C2, amended: every returned point has forecast >= 100, and there is an
\* unrounded value v >= 100 that the point's forecast is round(v, 2) of, with
\* lower_bound = round(v * 0.85, 2) and upper_bound = round(v * 1.15, 2).
C2_BoundsOfUnroundedForecast ==
    Returned =>
        \A p \in ReturnedPoints :
            /\ p.forecast >= 100 * 100
            /\ \E v \in (p.forecast * (Scale \div 100) - Scale \div 200) ..
                        (p.forecast * (Scale \div 100) + Scale \div 200) :
                  /\ v >= 100 * Scale
                  /\ Round2(v) = p.forecast
                  /\ Round2Times(v, 85) = p.lower_bound
                  /\ Round2Times(v, 115) = p.upper_bound

\* A returned point whose lower bound is not the rounded 85% of its reported
\* forecast (2037.64 and 1732.00), and a point clamped to 100.
C2_Witness ==
    /\ Returned
    /\ \E p \in ReturnedPoints : p.forecast = 203764 /\ p.lower_bound = 173200
    /\ \E p \in ReturnedPoints : p.forecast = 10000

\* C4, as stated: with an empty list of centers, or with an empty list of items,
\* the returned mapping has no keys.
C4_EmptyInputsGiveEmptyMapping ==
    (Returned /\ (request.centers = <<>> \/ request.items = <<>>))
        => DOMAIN forecasts = {}

\* C4, amended: with an empty list of centers the returned mapping has no keys;
\* with centers and an empty list of items it has exactly the centers as keys,
\* each mapped to an empty mapping.
C4_EmptyInputsGiveNoSeries ==
    Returned =>
        /\ request.centers = <<>> => DOMAIN forecasts = {}
        /\ request.items = <<>> =>
              /\ DOMAIN forecasts = Range(request.centers)
              /\ \A c \in DOMAIN forecasts : DOMAIN forecasts[c] = {}

\* A call with two centers and no items has returned.
C4_Witness ==
    /\ Returned
    /\ request.items = <<>>
    /\ Cardinality(Range(request.centers)) = 2
    /\ Cardinality(DOMAIN forecasts) = 2

\* C9: two generate_forecast calls given the same centers, items, horizon, clock
\* and noise samples, but different model_type strings, on engines whose model
\* store and feature list may differ, build identical results at every step.
C9_ModelSelectorInert ==
    /\ forecasts = twin_forecasts
    /\ series = twin_series

\* Both calls have returned a series; the model types differ, one of them names
\* a stored model, and the stores differ.
C9_Witness ==
    /\ Returned
    /\ request.model_type # twin.model_type
    /\ request.model_type \in models
    /\ twin.models # models
    /\ \E p \in ReturnedPoints : p.forecast > 100 * 100

\* C3, as stated: every listing returned is strictly ascending (so without
\* duplicates), and without data get_available_centers returns ALIBAG, KASARA,
\* TALOJA, UTTAN, VASAI in that order.
C3_ListingsSorted ==
    result.kind = "return" =>
        /\ \A k \in 1..(Len(result.value) - 1) :
              LexLess(result.value[k], result.value[k + 1])
        /\ (call.op = "get_available_centers" /\ ~data.present) =>
              result.value = <<"ALIBAG", "KASARA", "TALOJA", "UTTAN", "VASAI">>

\* C5, as stated: construction never fails whatever open() and yaml.safe_load
\* meet, and after a read or parse failure the configuration is the default.
C5_ConstructionNeverFails ==
    /\ pc # "failed"
    /\ (pc = "ready" /\ config_file \in {"missing", "unreadable", "malformed"})
          => config = DefaultConfig

\* C6, as stated: no listing call raises.
C6_ListingsNeverRaise == call.op # "none" => result.kind = "return"

\* C10: whatever get_available_items(center) returns is contained in what
\* get_available_items(None) returns on the same engine.
C10_RestrictedIsSubset ==
    (call.op = "get_available_items" /\ result.kind = "return") =>
        LET all == get_available_items(config, data, NoneArg)
        IN /\ all.kind = "return"
           /\ Range(result.value) \subseteq Range(all.value)

\* A center was given, the dataset has both columns, and the restricted list is
\* non-empty and shorter than the unrestricted one.
C10_Witness ==
    /\ call.op = "get_available_items"
    /\ Truthy(call.center)
    /\ result.kind = "return"
    /\ data.present
    /\ config.item_column \in data.columns
    /\ Len(result.value) >= 1
    /\ Len(result.value) < Len(get_available_items(config, data, NoneArg).value)

Analyzed == "pending" \notin DOMAIN analysis

AnalysisFields ==
    {"total_records", "columns", "date_range", "centers", "products", "total_demand",
     "recommendations"}

\* C7: analyze_uploaded_data returns either a mapping whose only key is 'error'
\* or a mapping with the analysis fields and no 'error' key, whose
\* total_records is the number of rows; content that does not parse gives the
\* first.
C7_AnalysisShape ==
    Analyzed =>
        /\ \/ DOMAIN analysis = {"error"}
           \/ /\ DOMAIN analysis = AnalysisFields
              /\ analysis.total_records = Len(upload.rows)
              /\ analysis.columns = upload.columns
        /\ ~upload.parses => DOMAIN analysis = {"error"}

\* The content parsed and the analysis of it failed.
C7_Witness ==
    /\ Analyzed
    /\ upload.parses
    /\ Len(upload.rows) >= 1
    /\ DOMAIN analysis = {"error"}

\* C8, as stated: when the table parses and has a date/time column, the
\* result has no 'error' key and its date_range is the minimum and maximum of
\* the parsed dates, whatever the column holds.
C8_UnparseableDatesTolerated ==
    (Analyzed /\ upload.parses /\ DateColumns(upload.columns) # <<>>) =>
        /\ "error" \notin DOMAIN analysis
        /\ LET parsed == ParsedDates(upload.rows, DateColumns(upload.columns)[1])
           IN /\ analysis.date_range.start = Strftime(SeriesMin(parsed))
              /\ analysis.date_range.end = Strftime(SeriesMax(parsed))

====
